---------------------------- MODULE Spec2Model ----------------------------
(***************************************************************************)
(* Payment service (services/payment-service-rust).                        *)
(*                                                                         *)
(* Two assemblies of the same handlers are specified:                      *)
(*   Spec      the service as main.rs builds it: the Router of lines       *)
(*             55-61 dispatches a request straight to its handler;         *)
(*   SpecGate  middleware/auth.rs::auth_middleware in front of the same    *)
(*             handlers (its `next`), talking to the identity authority    *)
(*             through services/user_client.rs.                            *)
(*                                                                         *)
(* A request is a process r with a position pc[r].  What a step does not   *)
(* read is drawn when it is read: the Authorization header when the        *)
(* request is accepted, the handler's extractor input (Json body, Path     *)
(* parameter) when the handler runs.                                       *)
(*                                                                         *)
(* Strings that the code inspects are sequences of characters.  Option is  *)
(* <<>> (None) or <<x>> (Some(x)).  Uuid::new_v4 is a source of fresh      *)
(* values (a counter).  A SQL statement is atomic in the store: an INSERT  *)
(* that fails stores nothing.                                              *)
(***************************************************************************)
EXTENDS Integers, Sequences, FiniteSets, TLC

VARIABLES pc, hdr, token, authReply, authz, subject, req, fetch, resp,
          ops, store, uuidCtr

vars == <<pc, hdr, token, authReply, authz, subject, req, fetch, resp,
          ops, store, uuidCtr>>

\* Number of requests the service receives.
MaxReq == 3

Req == 1..MaxReq

--------------------------------------------------------------------------
\* Option<T>

None == <<>>

Some(x) == <<x>>

--------------------------------------------------------------------------
\* Transport status codes used by the handlers and the middleware.

OK == 200

UNAUTHORIZED == 401

NOT_FOUND == 404

INTERNAL_SERVER_ERROR == 500

--------------------------------------------------------------------------
\* Request Gate: the Authorization header and the bearer token.

\* A header value: its bytes, and whether HeaderValue::to_str accepts them
\* (visible ASCII only).
HeaderValue(visible, chars) == [visible |-> visible, chars |-> chars]

BearerPrefix == <<"B", "e", "a", "r", "e", "r", " ">>

\* headers.get("Authorization"): absent, or one of these values.
Headers ==
    { None,
      Some(HeaderValue(FALSE, BearerPrefix \o <<"t", "~">>)),
      Some(HeaderValue(TRUE, <<"B", "a", "s", "i", "c", " ", "t">>)),
      Some(HeaderValue(TRUE, <<"b", "e", "a", "r", "e", "r", " ", "t">>)),
      Some(HeaderValue(TRUE, BearerPrefix \o <<"t">>)) }

\* A conversion that accepts every byte sequence.
ToStrOk_Lossy(v) == Some(v.chars)

\* v.to_str().ok()
ToStrOk(v) == IF v.visible THEN Some(v.chars) ELSE None

\* str::strip_prefix
StripPrefix(s, p) ==
    IF Len(s) >= Len(p) /\ SubSeq(s, 1, Len(p)) = p
    THEN Some(SubSeq(s, Len(p) + 1, Len(s)))
    ELSE None

StripBearer(s) == StripPrefix(s, BearerPrefix)

\* auth_middleware, lines 16-19: the token, or None when the request is
\* rejected by ok_or(UNAUTHORIZED)?.
ExtractToken(h) ==
    LET text == IF h = None THEN None ELSE ToStrOk(h[1])
    IN  IF text = None THEN None ELSE StripBearer(text[1])

--------------------------------------------------------------------------
\* Authorization Gateway: what the identity authority can send back.

\* TokenData { valid, userId, email }
TokenData(valid, userId) == [valid |-> valid, user_id |-> userId]

\* A response body: whether response.json() decodes it as a
\* ValidateTokenResponse, and if so its fields.
Unparseable == [parses |-> FALSE, status |-> "", data |-> None]

Payload(status, data) == [parses |-> TRUE, status |-> status, data |-> data]

Bodies ==
    { Unparseable,
      Payload("success", None),
      Payload("success", Some(TokenData(TRUE, "U1"))),
      Payload("success", Some(TokenData(FALSE, "U1"))),
      Payload("error", None),
      Payload("error", Some(TokenData(TRUE, "U1"))),
      Payload("error", Some(TokenData(FALSE, ""))) }

\* The outcome of client.post(url).header(..).send().await: the call could
\* not complete, or a response with a status code and a body.
TransportError == [kind |-> "error", code |-> 0, body |-> Unparseable]

HttpResponse(code, body) == [kind |-> "response", code |-> code, body |-> body]

Replies ==
    {TransportError}
    \cup {HttpResponse(200, b) : b \in Bodies}
    \cup {HttpResponse(204, Unparseable)}
    \cup {HttpResponse(401, b) :
             b \in {Unparseable, Payload("success", Some(TokenData(TRUE, "U1")))}}
    \cup {HttpResponse(500, Unparseable)}

\* StatusCode::is_success
IsSuccess(code) == code >= 200 /\ code <= 299

\* Result<bool>
VtOk(b) == IF b THEN "Ok(true)" ELSE "Ok(false)"

VtErr == "Err"

NotCalled == "not called"

\* validate_token without the test of the payload's status field.
ValidateToken_NoStatusCheck(reply) ==
    IF reply.kind = "error" THEN VtErr
    ELSE IF IsSuccess(reply.code)
         THEN IF ~reply.body.parses THEN VtErr
              ELSE VtOk(IF reply.body.data = None THEN FALSE
                        ELSE reply.body.data[1].valid)
         ELSE VtOk(FALSE)

\* UserServiceClient::validate_token on the outcome of the transport call.
ValidateToken(reply) ==
    IF reply.kind = "error" THEN VtErr
    ELSE IF IsSuccess(reply.code)
         THEN IF ~reply.body.parses THEN VtErr
              ELSE VtOk(reply.body.status = "success"
                        /\ (IF reply.body.data = None THEN FALSE
                            ELSE reply.body.data[1].valid))
         ELSE VtOk(FALSE)

\* Result<Option<String>>
SubjOk(value) == [called |-> TRUE, ok |-> TRUE, value |-> value]

SubjErr == [called |-> TRUE, ok |-> FALSE, value |-> None]

NoSubject == [called |-> FALSE, ok |-> FALSE, value |-> None]

\* UserServiceClient::get_user_id_from_token on the outcome of the
\* transport call.
GetUserIdFromToken(reply) ==
    IF reply.kind = "error" THEN SubjErr
    ELSE IF IsSuccess(reply.code)
         THEN IF ~reply.body.parses THEN SubjErr
              ELSE SubjOk(IF reply.body.data = None THEN None
                          ELSE Some(reply.body.data[1].user_id))
         ELSE SubjOk(None)

--------------------------------------------------------------------------
\* Data model: models.rs, dto.rs.

\* PaymentStatus::as_str
AsStr(status) ==
    CASE status = "Pending"    -> "PENDING"
      [] status = "Processing" -> "PROCESSING"
      [] status = "Completed"  -> "COMPLETED"
      [] status = "Failed"     -> "FAILED"
      [] status = "Refunded"   -> "REFUNDED"

\* Uuid::new_v4 after `ctr` earlier calls: a value no earlier call returned.
NewV4(ctr) == ctr + 1

\* Uuid::to_string: the hyphenated text of a Uuid.
UuidToString(u) == <<"uuid", u>>

\* DateTime<Utc>::to_rfc3339
ToRfc3339(t) == <<"rfc3339", t>>

\* CreatePaymentRequest { order_id, user_id, amount, currency, payment_method }
CreatePaymentRequest(order, user, amount, currency, method) ==
    [order_id |-> order, user_id |-> user, amount |-> amount,
     currency |-> currency, payment_method |-> method]

\* Json bodies a caller may post: two payments for order O1 that differ in
\* every other field, and one for order O2.
CreateRequests ==
    { CreatePaymentRequest("O1", "U1", 4999, "USD", "card"),
      CreatePaymentRequest("O1", "U2", 1000, "EUR", "wire"),
      CreatePaymentRequest("O2", "U1", 4999, "USD", "card") }

Orders == {"O1", "O2"}

\* Path<Uuid> values a caller may ask for: the ids of the first two creates
\* (every second Uuid drawn is an id) and one value that is never an id.
LookupIds == {1, 2, 4}

\* Two readings of Utc::now() in one create_payment call (lines 30 and 31):
\* the same instant, or a later one.
ClockReadings == {<<1, 1>>, <<1, 2>>}

\* PaymentResponse built from a Payment row (handlers/payment.rs).
ToPaymentResponse(p) ==
    [id |-> p.id, order_id |-> p.order_id, user_id |-> p.user_id,
     amount |-> p.amount, currency |-> p.currency,
     payment_method |-> p.payment_method,
     payment_status |-> p.payment_status,
     transaction_id |-> p.transaction_id,
     created_at |-> ToRfc3339(p.created_at),
     updated_at |-> ToRfc3339(p.updated_at)]

\* ApiResponse::success
ApiSuccess(data) ==
    [success |-> TRUE, message |-> "Success", data |-> Some(data)]

\* ApiResponse::error
ApiError(message) ==
    [success |-> FALSE, message |-> message, data |-> None]

\* What the caller receives: Ok(Json(envelope)) or Err(StatusCode).
JsonOk(envelope) == [status |-> OK, body |-> Some(envelope)]

StatusOnly(code) == [status |-> code, body |-> None]

NoResponse == [status |-> 0, body |-> None]

--------------------------------------------------------------------------
\* Payment Processor: services/payment_service.rs.

\* A processor that leaves the payment pending.
MockPaymentStatus_Pending == "Pending"

\* let payment_status = PaymentStatus::Completed;
MockPaymentStatus == "Completed"

\* A row whose id is derived from the order instead of drawn afresh.
NewPayment_IdFromOrder(request, ctr, t1, t2) ==
    [id |-> IF request.order_id = "O1" THEN 2 ELSE 4,
     order_id |-> request.order_id, user_id |-> request.user_id,
     amount |-> request.amount, currency |-> request.currency,
     payment_method |-> request.payment_method,
     payment_status |-> AsStr(MockPaymentStatus),
     transaction_id |-> Some(UuidToString(NewV4(ctr))),
     created_at |-> t1, updated_at |-> t2]

\* The row bound by create_payment: transaction_id is the first Uuid drawn
\* (line 12), id the second (line 22); created_at and updated_at are two
\* readings of Utc::now().
NewPayment(request, ctr, t1, t2) ==
    [id |-> NewV4(NewV4(ctr)),
     order_id |-> request.order_id, user_id |-> request.user_id,
     amount |-> request.amount, currency |-> request.currency,
     payment_method |-> request.payment_method,
     payment_status |-> AsStr(MockPaymentStatus),
     transaction_id |-> Some(UuidToString(NewV4(ctr))),
     created_at |-> t1, updated_at |-> t2]

\* The payments table's constraints on a new row, given the rows it holds:
\* the store enforces no uniqueness of order_id, and a fresh id collides
\* with none.
SchemaRejects(table, row) == FALSE

\* An insert that keeps one record per order.
InsertInto_OncePerOrder(table, row, executes) ==
    IF executes /\ \A p \in table : p.order_id # row.order_id
    THEN table \cup {row}
    ELSE table

\* An insert that replaces the order's earlier records.
InsertInto_Upsert(table, row, executes) ==
    IF executes
    THEN {p \in table : p.order_id # row.order_id} \cup {row}
    ELSE table

\* An insert whose row stays behind when the statement fails.
InsertInto_Unconditional(table, row, executes) == table \cup {row}

\* The payments table after INSERT ... RETURNING *: the statement either
\* executes and adds the row, or fails and stores nothing.
InsertInto(table, row, executes) ==
    IF executes THEN table \cup {row} ELSE table

\* The query without its WHERE clause.
SelectById_NoFilter(table, id) == table

\* SELECT * FROM payments WHERE id = $1
SelectById(table, id) == {p \in table : p.id = id}

\* The query without its WHERE clause.
SelectByOrder_NoFilter(table, order) == table

\* SELECT * FROM payments WHERE order_id = $1
SelectByOrder(table, order) == {p \in table : p.order_id = order}

\* A query that returns the most recently created row first.
FirstRow_Latest(rows) == {p \in rows : \A q \in rows : q.id <= p.id}

\* The rows fetch_one may return as the first of a result: the queries have
\* no ORDER BY, so any of them.
FirstRow(rows) == rows

\* fetch_one: Ok(row), Err(RowNotFound) or another sqlx error.
FetchOne(rows, reachable) ==
    IF ~reachable THEN "error"
    ELSE IF rows = {} THEN "row not found"
    ELSE "row"

\* Round trips a request has made: calls to the authority, and statements
\* sent to the store that read and that write.
NoOps == [auth |-> 0, reads |-> 0, writes |-> 0]

AddOps(done, more) ==
    [auth |-> done.auth + more.auth, reads |-> done.reads + more.reads,
     writes |-> done.writes + more.writes]

\* One client.post(..).send() per call of the gateway.
AuthorityCall == [auth |-> 1, reads |-> 0, writes |-> 0]

\* A create that reads the row back with a second statement.
CreateStatements_ReadBack == [auth |-> 0, reads |-> 1, writes |-> 1]

\* create_payment sends one statement, the INSERT ... RETURNING.
CreateStatements == [auth |-> 0, reads |-> 0, writes |-> 1]

\* get_payment and get_payment_by_order send one statement, a SELECT.
LookupStatements == [auth |-> 0, reads |-> 1, writes |-> 0]

\* handlers::payment::create_payment, line 21: .map_err(|_| 500)
CreateErrorStatus(kind) == INTERNAL_SERVER_ERROR

\* Lookups that answer 500, as create does.
LookupErrorStatus_Internal(kind) == INTERNAL_SERVER_ERROR

\* handlers::payment::get_payment, line 46, and get_payment_by_order,
\* line 70: .map_err(|_| 404)
LookupErrorStatus(kind) == NOT_FOUND

--------------------------------------------------------------------------
\* State.
\*   pc[r]         where request r is: "idle" (not yet received), "gate",
\*                 "validating" (validate_token awaits the authority),
\*                 "replied" (the transport call has an outcome), "handler"
\*                 (handed to the route's handler), "done" (answered)
\*   hdr[r]        the Authorization header of r while it can still be read
\*   token[r]      the bearer token sent to the authority
\*   authReply[r]  the outcome of the transport call, until it is consumed
\*   authz[r]      what validate_token returned for r
\*   subject[r]    what get_user_id_from_token returned for r
\*   req[r]        the handler and the input its extractors decoded
\*   fetch[r]      the outcome of the handler's fetch_one
\*   resp[r]       what the caller received
\*   ops[r]        the round trips r has made to the authority and the store
\*   store         the payments table
\*   uuidCtr       number of Uuid::new_v4 calls so far

NoRequest == [route |-> "", body |-> None, id |-> 0, order_id |-> ""]

Init ==
    /\ pc = [r \in Req |-> "idle"]
    /\ hdr = [r \in Req |-> None]
    /\ token = [r \in Req |-> None]
    /\ authReply = [r \in Req |-> None]
    /\ authz = [r \in Req |-> NotCalled]
    /\ subject = [r \in Req |-> NoSubject]
    /\ req = [r \in Req |-> NoRequest]
    /\ fetch = [r \in Req |-> "none"]
    /\ resp = [r \in Req |-> NoResponse]
    /\ ops = [r \in Req |-> NoOps]
    /\ store = {}
    /\ uuidCtr = 0

\* Requests are received in the order of their names.
NextToArrive(r) ==
    pc[r] = "idle" /\ (IF r = 1 THEN TRUE ELSE pc[r - 1] # "idle")

\* The caller of r is answered.
Answer(r, response) ==
    /\ pc' = [pc EXCEPT ![r] = "done"]
    /\ resp' = [resp EXCEPT ![r] = response]
    /\ hdr' = [hdr EXCEPT ![r] = None]

--------------------------------------------------------------------------
\* The service as main.rs assembles it.

\* main.rs, lines 55-61 and 68: the Router holds the four routes, the CORS
\* layer and the state; a request on a payment route goes to its handler.
RouterDispatch(r) ==
    /\ NextToArrive(r)
    /\ \E h \in Headers : hdr' = [hdr EXCEPT ![r] = Some(h)]
    /\ pc' = [pc EXCEPT ![r] = "handler"]
    /\ UNCHANGED <<token, authReply, authz, subject, req, fetch, resp, ops,
                   store, uuidCtr>>

\* POST /api/payments: handlers::payment::create_payment with
\* payment_service::create_payment.
CreatePayment(r) ==
    /\ pc[r] = "handler"
    /\ \E request \in CreateRequests, executes \in BOOLEAN, t \in ClockReadings :
         LET row == NewPayment(request, uuidCtr, t[1], t[2])
             accepted == executes /\ ~SchemaRejects(store, row)
             kind == FetchOne({row}, accepted)
         IN  /\ store' = InsertInto(store, row, accepted)
             /\ uuidCtr' = NewV4(NewV4(uuidCtr))
             /\ ops' = [ops EXCEPT ![r] = AddOps(@, CreateStatements)]
             /\ req' = [req EXCEPT ![r] =
                          [route |-> "create", body |-> Some(request),
                           id |-> 0, order_id |-> ""]]
             /\ fetch' = [fetch EXCEPT ![r] = kind]
             /\ Answer(r, IF kind = "row"
                          THEN JsonOk(ApiSuccess(ToPaymentResponse(row)))
                          ELSE StatusOnly(CreateErrorStatus(kind)))
    /\ UNCHANGED <<token, authReply, authz, subject>>

\* GET /api/payments/:id: handlers::payment::get_payment with
\* payment_service::get_payment.
GetPayment(r) ==
    /\ pc[r] = "handler"
    /\ \E id \in LookupIds, reachable \in BOOLEAN :
         LET rows == IF reachable THEN SelectById(store, id) ELSE {}
             kind == FetchOne(rows, reachable)
         IN  /\ req' = [req EXCEPT ![r] =
                          [route |-> "get", body |-> None,
                           id |-> id, order_id |-> ""]]
             /\ fetch' = [fetch EXCEPT ![r] = kind]
             /\ ops' = [ops EXCEPT ![r] = AddOps(@, LookupStatements)]
             /\ IF kind = "row"
                THEN \E p \in FirstRow(rows) :
                       Answer(r, JsonOk(ApiSuccess(ToPaymentResponse(p))))
                ELSE Answer(r, StatusOnly(LookupErrorStatus(kind)))
    /\ UNCHANGED <<token, authReply, authz, subject, store, uuidCtr>>

\* GET /api/payments/order/:order_id: handlers::payment::get_payment_by_order
\* with payment_service::get_payment_by_order.  The query has no ORDER BY:
\* fetch_one returns whichever matching row the store yields first.
GetPaymentByOrder(r) ==
    /\ pc[r] = "handler"
    /\ \E order \in Orders, reachable \in BOOLEAN :
         LET rows == IF reachable THEN SelectByOrder(store, order) ELSE {}
             kind == FetchOne(rows, reachable)
         IN  /\ req' = [req EXCEPT ![r] =
                          [route |-> "by_order", body |-> None,
                           id |-> 0, order_id |-> order]]
             /\ fetch' = [fetch EXCEPT ![r] = kind]
             /\ ops' = [ops EXCEPT ![r] = AddOps(@, LookupStatements)]
             /\ IF kind = "row"
                THEN \E p \in FirstRow(rows) :
                       Answer(r, JsonOk(ApiSuccess(ToPaymentResponse(p))))
                ELSE Answer(r, StatusOnly(LookupErrorStatus(kind)))
    /\ UNCHANGED <<token, authReply, authz, subject, store, uuidCtr>>

Handler(r) == CreatePayment(r) \/ GetPayment(r) \/ GetPaymentByOrder(r)

Next ==
    \E r \in Req :
        \/ RouterDispatch(r)
        \/ CreatePayment(r)
        \/ GetPayment(r)
        \/ GetPaymentByOrder(r)

Spec == Init /\ [][Next]_vars

--------------------------------------------------------------------------
\* The Request Gate in front of the handlers.

\* A gate that tells the caller when the authority could not be asked.
RejectStatus_Distinguish(result) ==
    IF result = VtErr THEN INTERNAL_SERVER_ERROR ELSE UNAUTHORIZED

\* auth_middleware, lines 26 and 29: the status answered when validate_token
\* failed (map_err) and when it returned false.
RejectStatus(result) == UNAUTHORIZED

\* A request enters auth_middleware.
GateEnter(r) ==
    /\ NextToArrive(r)
    /\ \E h \in Headers : hdr' = [hdr EXCEPT ![r] = Some(h)]
    /\ pc' = [pc EXCEPT ![r] = "gate"]
    /\ UNCHANGED <<token, authReply, authz, subject, req, fetch, resp, ops,
                   store, uuidCtr>>

\* auth_middleware, lines 16-20, and validate_token up to send() (lines
\* 34-40): without a bearer token the request is answered 401; with one the
\* token is posted to the authority and the request awaits the outcome.
\* Client::new() (user_client.rs, line 29) sets no timeout on the call.
GateExtract(r) ==
    /\ pc[r] = "gate"
    /\ LET t == ExtractToken(hdr[r][1])
       IN  IF t = None
           THEN /\ Answer(r, StatusOnly(UNAUTHORIZED))
                /\ UNCHANGED <<token, ops>>
           ELSE /\ token' = [token EXCEPT ![r] = t]
                /\ ops' = [ops EXCEPT ![r] = AddOps(@, AuthorityCall)]
                /\ pc' = [pc EXCEPT ![r] = "validating"]
                /\ UNCHANGED <<hdr, resp>>
    /\ UNCHANGED <<authReply, authz, subject, req, fetch, store, uuidCtr>>

\* The identity authority, or the network in front of it: the transport
\* call of r gets an outcome.  Nothing obliges it to happen.
AuthorityReplies(r) ==
    /\ pc[r] = "validating"
    /\ \E reply \in Replies : authReply' = [authReply EXCEPT ![r] = Some(reply)]
    /\ pc' = [pc EXCEPT ![r] = "replied"]
    /\ UNCHANGED <<hdr, token, authz, subject, req, fetch, resp, ops,
                   store, uuidCtr>>

\* validate_token from line 41 on, and auth_middleware, lines 26-32: Err and
\* Ok(false) are answered 401, on Ok(true) the request goes to the handler.
GateDecide(r) ==
    /\ pc[r] = "replied"
    /\ LET result == ValidateToken(authReply[r][1])
       IN  /\ authz' = [authz EXCEPT ![r] = result]
           /\ IF result = VtOk(TRUE)
              THEN /\ pc' = [pc EXCEPT ![r] = "handler"]
                   /\ UNCHANGED <<hdr, resp>>
              ELSE Answer(r, StatusOnly(RejectStatus(result)))
    /\ authReply' = [authReply EXCEPT ![r] = None]
    /\ token' = [token EXCEPT ![r] = None]
    /\ UNCHANGED <<subject, req, fetch, ops, store, uuidCtr>>

\* The steps of request r that the service itself takes.
ServiceStep(r) ==
    GateExtract(r) \/ GateDecide(r) \/ Handler(r)

NextGate ==
    \E r \in Req :
        \/ GateEnter(r)
        \/ GateExtract(r)
        \/ AuthorityReplies(r)
        \/ GateDecide(r)
        \/ CreatePayment(r)
        \/ GetPayment(r)
        \/ GetPaymentByOrder(r)

\* The runtime polls every task that can make progress; the arrival of
\* requests and the authority's answers are not the service's to decide.
SpecGate ==
    Init /\ [][NextGate]_vars /\ \A r \in Req : WF_vars(ServiceStep(r))

--------------------------------------------------------------------------
\* The gateway's second operation, called on its own.

\* Bearer tokens a caller of the gateway may pass.
Tokens == {<<"t">>}

\* get_user_id_from_token up to send() (lines 57-63): the token is posted
\* to the authority and the call awaits the outcome.
ResolveSend(r) ==
    /\ NextToArrive(r)
    /\ \E t \in Tokens : token' = [token EXCEPT ![r] = Some(t)]
    /\ ops' = [ops EXCEPT ![r] = AddOps(@, AuthorityCall)]
    /\ pc' = [pc EXCEPT ![r] = "validating"]
    /\ UNCHANGED <<hdr, authReply, authz, subject, req, fetch, resp,
                   store, uuidCtr>>

\* get_user_id_from_token from line 64 on.
ResolveReturn(r) ==
    /\ pc[r] = "replied"
    /\ subject' = [subject EXCEPT ![r] = GetUserIdFromToken(authReply[r][1])]
    /\ pc' = [pc EXCEPT ![r] = "done"]
    /\ authReply' = [authReply EXCEPT ![r] = None]
    /\ token' = [token EXCEPT ![r] = None]
    /\ UNCHANGED <<hdr, authz, req, fetch, resp, ops, store, uuidCtr>>

NextResolve ==
    \E r \in Req :
        \/ ResolveSend(r)
        \/ AuthorityReplies(r)
        \/ ResolveReturn(r)

SpecResolve == Init /\ [][NextResolve]_vars

--------------------------------------------------------------------------
\* Vocabulary of the properties.

\* Request r has been answered by handler `route`.
Served(r, route) == pc[r] = "done" /\ req[r].route = route

\* r is a create that returned a record.
Created(r) == Served(r, "create") /\ resp[r].status = OK

\* The PaymentResponse inside a success envelope.
RecordOf(response) == response.body[1].data[1]

\* This step is handler `route` answering request r.
Serves(r, route) ==
    pc[r] = "handler" /\ pc'[r] = "done" /\ req'[r].route = route

\* This step is validate_token returning to the middleware for request r.
Returns(r) == pc[r] = "replied" /\ pc'[r] # "replied"

\* The authority answered 2xx with status "success", data present and
\* valid = true.
ReportsValid(reply) ==
    /\ reply.kind = "response"
    /\ reply.code \in 200..299
    /\ reply.body.parses
    /\ reply.body.status = "success"
    /\ reply.body.data # None
    /\ reply.body.data[1].valid

--------------------------------------------------------------------------
\* C1: a protected request reaches its handler (and with it the Payment
\* Processor and the store) only after validate_token returned true for it.
\* Stated of the service main.rs assembles, where it fails: the Router is
\* built without auth_middleware.
C1_HandlerOnlyAfterValidToken ==
    \A r \in Req :
        (pc[r] = "handler" \/ fetch[r] # "none") => authz[r] = VtOk(TRUE)

\* C2: a request suspended in validate_token always leaves it: when the
\* authority never answers, the call is cut off and the request answered.
\* It fails: the client has no timeout, so nothing ends the wait.
C2_ValidationAlwaysEnds ==
    \A r \in Req : (pc[r] = "validating") ~> (pc[r] # "validating")

\* C3: validate_token returns Ok(true) only on a 2xx answer whose payload
\* has status "success" and data present with valid = true.
C3_TrueOnlyIfReportedValid ==
    [][\A r \in Req :
          (Returns(r) /\ authz'[r] = VtOk(TRUE))
              => ReportsValid(authReply[r][1])]_vars

\* C3 witness: validate_token has returned true for one request and false
\* for another.
C3_Witness ==
    \E r1, r2 \in Req : authz[r1] = VtOk(TRUE) /\ authz[r2] = VtOk(FALSE)

\* C4: whenever the transport call completed, validate_token yields
\* Ok(false), never an error, for a non-2xx answer, a malformed payload and
\* valid = false; it fails (Err) only when the transport call did not
\* complete.  It fails for the malformed payload: response.json()? is Err.
C4_CompletedCallYieldsBool ==
    [][\A r \in Req :
          Returns(r) =>
              LET reply == authReply[r][1]
              IN  /\ authz'[r] = VtErr => reply.kind = "error"
                  /\ (reply.kind = "response" /\ ~ReportsValid(reply))
                         => authz'[r] = VtOk(FALSE)]_vars

\* C5: every record a create returns, and every record in the store, has
\* payment_status COMPLETED and a present, non-empty transaction_id.
C5_AlwaysCompleted ==
    /\ \A p \in store :
          /\ p.payment_status = "COMPLETED"
          /\ p.transaction_id # None
          /\ Len(p.transaction_id[1]) > 0
    /\ \A r \in Req :
          Created(r) =>
              /\ RecordOf(resp[r]).payment_status = "COMPLETED"
              /\ RecordOf(resp[r]).transaction_id # None
              /\ Len(RecordOf(resp[r]).transaction_id[1]) > 0

\* C5 witness: a create has returned a record, which is in the store.
C5_Witness ==
    \E r \in Req :
        Created(r) /\ \E p \in store : p.id = RecordOf(resp[r]).id

\* C6: a getById for the id an earlier create returned, whatever was served
\* in between, answers with the very response the create gave (the same
\* record in every field), provided the store answers the read.
C6_GetByIdReturnsCreated ==
    [][\A r, c \in Req :
          (/\ Created(c)
           /\ Serves(r, "get")
           /\ req'[r].id = RecordOf(resp[c]).id
           /\ fetch'[r] # "error")
              => resp'[r] = resp[c]]_vars

\* C6 witness: two creates returned records and a getById returned the
\* first one's.
C6_Witness ==
    \E c, x, r \in Req :
        /\ Created(c) /\ Created(x) /\ c # x
        /\ Served(r, "get") /\ resp[r].status = OK
        /\ req[r].id = RecordOf(resp[c]).id
        /\ resp[r] = resp[c]

\* C7: a getByOrderId for an order that exactly one create has succeeded
\* for answers with the response that create gave, provided the store
\* answers the read; and every successful getByOrderId(o) returns a record
\* whose order_id is o.
C7_GetByOrderReturnsCreated ==
    [][\A r \in Req :
          Serves(r, "by_order") =>
              /\ resp'[r].status = OK
                     => RecordOf(resp'[r]).order_id = req'[r].order_id
              /\ \A c \in Req :
                    (/\ Created(c)
                     /\ RecordOf(resp[c]).order_id = req'[r].order_id
                     /\ \A x \in Req \ {c} :
                           Created(x) =>
                               RecordOf(resp[x]).order_id # req'[r].order_id
                     /\ fetch'[r] # "error")
                        => resp'[r] = resp[c]]_vars

\* C7 witness: one create for each order, and a getByOrderId that returned
\* the record of the first.
C7_Witness ==
    \E c, x, r \in Req :
        /\ Created(c) /\ Created(x)
        /\ RecordOf(resp[c]).order_id # RecordOf(resp[x]).order_id
        /\ Served(r, "by_order") /\ resp[r].status = OK
        /\ req[r].order_id = RecordOf(resp[c]).order_id
        /\ resp[r] = resp[c]

\* C8: getById on an id no stored record has, and getByOrderId on an order
\* no stored record references, answer 404 and return no record.
C8_UnknownIsNotFound ==
    [][\A r \in Req :
          /\ (Serves(r, "get") /\ \A p \in store : p.id # req'[r].id)
                 => resp'[r] = StatusOnly(NOT_FOUND)
          /\ (Serves(r, "by_order")
                 /\ \A p \in store : p.order_id # req'[r].order_id)
                 => resp'[r] = StatusOnly(NOT_FOUND)]_vars

\* C8 witness: with a record stored, a getById and a getByOrderId both
\* found no row and were answered 404.
C8_Witness ==
    \E r1, r2 \in Req :
        /\ store # {}
        /\ Served(r1, "get") /\ fetch[r1] = "row not found"
        /\ \A p \in store : p.id # req[r1].id
        /\ resp[r1].status = NOT_FOUND
        /\ Served(r2, "by_order") /\ fetch[r2] = "row not found"
        /\ \A p \in store : p.order_id # req[r2].order_id
        /\ resp[r2].status = NOT_FOUND

\* C9: when the store is unreachable or rejects the statement, the caller
\* of create, getById or getByOrderId receives 500.  It fails for the two
\* lookups, which answer 404 to every error.
C9_StorageFailureIsInternalError ==
    \A r \in Req :
        (pc[r] = "done" /\ fetch[r] = "error")
            => resp[r].status = INTERNAL_SERVER_ERROR

C11_StoreOnlyGrowsByCreate ==
    [][/\ store \subseteq store'
       /\ \A r \in Req :
             (Serves(r, "get") \/ Serves(r, "by_order")) => store' = store
       /\ store' # store =>
             /\ \E r \in Req : Serves(r, "create")
             /\ Cardinality(store' \ store) = 1]_vars

\* C11 witness: two records are stored, both for the same order, and a
\* lookup has been served since the first one was written.
C11_Witness ==
    \E c, x, r \in Req :
        /\ Created(c) /\ Created(x) /\ c # x
        /\ RecordOf(resp[c]).order_id = RecordOf(resp[x]).order_id
        /\ Cardinality(store) = 2
        /\ Served(r, "get") /\ resp[r].status = OK

\* The Authorization header carries no bearer token: it is absent, is not
\* valid text, or does not begin with "Bearer ".
NoBearer(h) ==
    \/ h = None
    \/ ~h[1].visible
    \/ Len(h[1].chars) < Len(BearerPrefix)
    \/ \E i \in 1..Len(BearerPrefix) : h[1].chars[i] # BearerPrefix[i]

\* C12: a request whose Authorization header carries no bearer token is
\* answered 401 in the step that reads the header, no token is sent to the
\* authority and validate_token is never called for it.
C12_NoBearerRejectedWithoutCall ==
    [][\A r \in Req :
          /\ (pc[r] = "gate" /\ pc'[r] # "gate" /\ NoBearer(hdr[r][1]))
                 => /\ pc'[r] = "done"
                    /\ resp'[r] = StatusOnly(UNAUTHORIZED)
                    /\ token'[r] = None
                    /\ authz'[r] = NotCalled
          /\ pc[r] = "done" => (pc'[r] = "done" /\ authz'[r] = authz[r])]_vars

\* C12 witness: one request was answered 401 without validate_token being
\* called, while another is waiting for the authority.
C12_Witness ==
    \E r1, r2 \in Req :
        /\ pc[r1] = "done" /\ authz[r1] = NotCalled
        /\ resp[r1] = StatusOnly(UNAUTHORIZED)
        /\ pc[r2] = "validating"

\* C13: a request for which validate_token returned false and one for which
\* it failed receive the same response, 401 and nothing else, and neither
\* reaches a handler.
C13_InvalidAndUnreachableLookAlike ==
    \A r1, r2 \in Req :
        (/\ pc[r1] = "done" /\ authz[r1] = VtOk(FALSE)
         /\ pc[r2] = "done" /\ authz[r2] = VtErr)
            => /\ resp[r1] = resp[r2]
               /\ resp[r1] = StatusOnly(UNAUTHORIZED)
               /\ req[r1] = NoRequest /\ fetch[r1] = "none"
               /\ req[r2] = NoRequest /\ fetch[r2] = "none"

\* C13 witness: validate_token returned false for one answered request and
\* failed for another.
C13_Witness ==
    \E r1, r2 \in Req :
        /\ pc[r1] = "done" /\ authz[r1] = VtOk(FALSE)
        /\ pc[r2] = "done" /\ authz[r2] = VtErr

\* The authority answered 2xx with status "success" and data present.
ReportsSuccess(reply) ==
    /\ reply.kind = "response"
    /\ reply.code \in 200..299
    /\ reply.body.parses
    /\ reply.body.status = "success"
    /\ reply.body.data # None

\* C14: get_user_id_from_token returns a non-empty subject identifier only
\* when the authority reported success, and returns no subject for every
\* other answer of the authority.  It fails: the payload's status field is
\* not read.
C14_SubjectOnlyOnSuccess ==
    [][\A r \in Req :
          (pc[r] = "replied" /\ pc'[r] = "done") =>
              LET reply == authReply[r][1]
              IN  /\ (subject'[r].value # None /\ subject'[r].value # Some(""))
                         => ReportsSuccess(reply)
                  /\ (reply.kind = "response" /\ ~ReportsSuccess(reply))
                         => subject'[r].value = None]_vars

\* The response carries the envelope in its failure shape.
FailureEnvelope(response) ==
    /\ response.body # None
    /\ \E message \in {response.body[1].message} :
          response.body[1] = ApiError(message)

\* C15: every failed outcome a payment handler returns (NotFound,
\* StorageFailure) carries the envelope with success = false, a message and
\* no payload.  It fails: the handlers return the bare status code and
\* ApiResponse::error is never called.
C15_FailuresCarryEnvelope ==
    \A r \in Req :
        (pc[r] = "done" /\ req[r].route # "" /\ resp[r].status # OK)
            => FailureEnvelope(resp[r])

\* C16: a request makes at most one round trip to the authority and at
\* most one to the store, the store's after the authority's; a successful
\* create sends exactly one statement, a write, and a lookup exactly one, a
\* read.
C16_OneAuthorizationThenOneStatement ==
    \A r \in Req :
        /\ ops[r].auth <= 1
        /\ ops[r].reads + ops[r].writes <= 1
        /\ ops[r].reads + ops[r].writes > 0
               => (ops[r].auth = 1 /\ authz[r] = VtOk(TRUE))
        /\ Created(r) => (ops[r].writes = 1 /\ ops[r].reads = 0)
        /\ (Served(r, "get") \/ Served(r, "by_order"))
               => (ops[r].reads = 1 /\ ops[r].writes = 0)

\* C16 witness: an authorized create has stored a record and an authorized
\* lookup has returned it.
C16_Witness ==
    \E c, r \in Req :
        /\ Created(c) /\ ops[c] = AddOps(AuthorityCall, CreateStatements)
        /\ Served(r, "get") /\ resp[r] = resp[c]
        /\ ops[r] = AddOps(AuthorityCall, LookupStatements)

\* C17: creates are not deduplicated on order_id.  A create is never
\* refused because of the records the store holds: while a request is at the
\* create handler, every body can be answered with a record; and a create
\* answered with a record has added that record to the store, whether or
\* not the order already had one.
C17_CreateIgnoresExistingOrder ==
    /\ [](\A r \in Req :
              pc[r] = "handler" =>
                  \A request \in CreateRequests :
                      ENABLED (/\ CreatePayment(r)
                               /\ req'[r].body = Some(request)
                               /\ resp'[r].status = OK))
    /\ [][\A r \in Req :
             (Serves(r, "create") /\ resp'[r].status = OK)
                 => \E p \in store' \ store :
                       /\ ToPaymentResponse(p) = RecordOf(resp'[r])
                       /\ p.order_id = req'[r].body[1].order_id]_vars

\* C17 witness: two creates for one order both returned a record, and the
\* store holds the two records, with the same order_id and different ids.
C17_Witness ==
    \E c, x \in Req :
        /\ Created(c) /\ Created(x)
        /\ RecordOf(resp[c]).order_id = RecordOf(resp[x]).order_id
        /\ RecordOf(resp[c]).id # RecordOf(resp[x]).id
        /\ \E p, q \in store :
              /\ ToPaymentResponse(p) = RecordOf(resp[c])
              /\ ToPaymentResponse(q) = RecordOf(resp[x])

\* C18: no two records in the store have the same id, and a record added
\* to the store has an id that no record stored before it has.
C18_IdsUniqueNeverReused ==
    /\ [](\A p, q \in store : p.id = q.id => p = q)
    /\ [][\A p \in store' \ store : \A q \in store : q.id # p.id]_vars

\* C18 witness: every request was a create, interleaved as the scheduler
\* chose, and each stored a record under an id of its own.
C18_Witness ==
    /\ Cardinality(store) = MaxReq
    /\ Cardinality({p.id : p \in store}) = MaxReq
    /\ \A r \in Req : Created(r)

\* C19: while an order has more than one record, a getByOrderId answered by
\* the store succeeds with one of the stored records of that order; and
\* each of them can be the one returned, so two lookups over the same store
\* need not agree.
C19_AnyRecordOfTheOrder ==
    /\ [](\A r \in Req :
              pc[r] = "handler" =>
                  \A order \in Orders : \A p \in SelectByOrder(store, order) :
                      ENABLED (/\ GetPaymentByOrder(r)
                               /\ req'[r].order_id = order
                               /\ resp'[r] = JsonOk(ApiSuccess(ToPaymentResponse(p)))))
    /\ [][\A r \in Req :
             (/\ Serves(r, "by_order")
              /\ fetch'[r] # "error"
              /\ Cardinality(SelectByOrder(store, req'[r].order_id)) > 1)
                 => /\ resp'[r].status = OK
                    /\ \E p \in SelectByOrder(store, req'[r].order_id) :
                          RecordOf(resp'[r]) = ToPaymentResponse(p)]_vars

\* C19 witness: an order has two records and a getByOrderId returned the
\* one created first, not the latest.
C19_Witness ==
    \E r \in Req : \E p, q \in store :
        /\ p.order_id = q.order_id /\ p.id < q.id
        /\ Served(r, "by_order") /\ resp[r].status = OK
        /\ RecordOf(resp[r]) = ToPaymentResponse(p)

==========================================================================
